---- MODULE Spec2Model ----
(***************************************************************************)
(* Model of dashboard.py: the end-of-day archiver (update_history_data),   *)
(* the daily report (create_daily_report) and the ratio functions          *)
(* (calculate_sharpe_ratio, calculate_sortino_ratio, calculate_drawdown).  *)
(*                                                                         *)
(* Time is counted in minutes: an instant is date * 1440 + minute of day.  *)
(* A price is a level on a logarithmic grid, so that max/min/first/last    *)
(* work on levels and a log return is a difference of levels.              *)
(* A csv file is modelled by its parsed rows, in file order.               *)
(*                                                                         *)
(* Spec        : ticks of update_graphs one after the other, the clock and *)
(*               the feed file changing in between                         *)
(* SpecOverlap : two invocations of update_history_data, statement by      *)
(*               statement                                                 *)
(* SpecReport  : create_daily_report on every clock reading and feed file  *)
(* SpecDrawdown: the drawdown column create_daily_report computes, on every *)
(*               feed file                                                 *)
(* SpecResample: resample_data on every frame of daily bars and every      *)
(*               period                                                    *)
(* SpecLoad    : load_realtime_data on every raw feed file                 *)
(* SpecCallback: the whole of update_graphs on every clock reading, period, *)
(*               date range and condition of the two files                 *)
(***************************************************************************)
EXTENDS Integers, Sequences, FiniteSets, TLC

\* ------------------------------------------------------------------ bounds
MaxDate == 2        \* calendar dates 1..MaxDate
MaxFeed == 2        \* rows in data_output.csv
MaxPrice == 2       \* price levels 1..MaxPrice
MaxSeries == 4      \* rows of a feed file handed to calculate_drawdown
MaxBars == 3        \* rows of a frame handed to resample_data
MaxRaw == 2         \* rows of a raw file handed to load_realtime_data

\* --------------------------------------------------------------- constants
CutoffHour == 20    \* "if current_hour == 20"

MinutesPerDay == 24 * 60
Dates == 1..MaxDate
Prices == 1..MaxPrice
Hours == (CutoffHour - 1)..(CutoffHour + 1)
\* minutes of the day at which the collector writes a bar: 09:00 and 17:30
BarMinutes == {9 * 60, 17 * 60 + 30}

Timestamp(d, m) == d * MinutesPerDay + m
\* Timestamp.date(), Series.dt.date
DateOf(ts) == ts \div MinutesPerDay
\* datetime.hour
HourOf(ts) == (ts % MinutesPerDay) \div 60
\* datetime.weekday(): Monday is 0; date 1 of the model's calendar is a Friday
Weekday(ts) == (DateOf(ts) + 3) % 7

\* the wall-clock instants datetime.now() can return
Instants == {Timestamp(d, h * 60) : d \in Dates, h \in Hours}

\* a parsed row of data_output.csv or data_history.csv
Bars ==
  {b \in [Date : {Timestamp(d, m) : d \in Dates, m \in BarMinutes},
          OpenPrice : Prices, ClosePrice : Prices, High : Prices, Low : Prices] :
     /\ b.Low <= b.OpenPrice /\ b.OpenPrice <= b.High
     /\ b.Low <= b.ClosePrice /\ b.ClosePrice <= b.High}

\* a row of the historical file as delivered: a date without time (midnight)
HistoryRow(d, p) ==
  [Date |-> Timestamp(d, 0), OpenPrice |-> p, ClosePrice |-> p, High |-> p, Low |-> p]

Last(s) == s[Len(s)]

RECURSIVE SeqMax(_, _)
\* Series.max() of column f
SeqMax(s, f) ==
  IF Len(s) = 1 THEN s[1][f]
  ELSE LET m == SeqMax(Tail(s), f) IN IF s[1][f] >= m THEN s[1][f] ELSE m

RECURSIVE SeqMin(_, _)
\* Series.min() of column f
SeqMin(s, f) ==
  IF Len(s) = 1 THEN s[1][f]
  ELSE LET m == SeqMin(Tail(s), f) IN IF s[1][f] <= m THEN s[1][f] ELSE m

\* ------------------------------------------------------------------- state
VARIABLES
  clock,      \* the wall clock, what datetime.now() returns
  feedFile,   \* the parsed rows of REALTIME_DATA_FILE (data_output.csv), in file order
  archive,    \* the parsed rows of DATA_FILE (data_history.csv), in file order
  op,         \* the operation that produced the current state
  pc,         \* per invocation of update_history_data: the statement it is at
  frame,      \* per invocation: its local variables now, realtime_df, history_df
  report,     \* what create_daily_report returned last
  fault,      \* the statement of create_daily_report that raised in that call
  files       \* the condition of the two csv files: there and well-formed, or not

vars == <<clock, feedFile, archive, op, pc, frame, report, fault, files>>

\* ----------------------------------------------------- update_history_data
IsCutoffGe(now) == HourOf(now) >= CutoffHour
\* if current_hour == 20
IsCutoff(now) == HourOf(now) = CutoffHour

\* today_data = realtime_df[realtime_df['Date'].dt.date == today]
TodayData(realtime_df, today) ==
  SelectSeq(realtime_df, LAMBDA b : DateOf(b.Date) = today)

AlreadyArchivedNever(history_df, today) == FALSE
AlreadyArchivedExact(history_df, today) ==
  \E i \in 1..Len(history_df) : history_df[i].Date = Timestamp(today, 0)
\* (history_df['Date'].dt.date == today).any()
AlreadyArchived(history_df, today) ==
  \E i \in 1..Len(history_df) : DateOf(history_df[i].Date) = today

NewDataLastOpen(today_data) ==
  [Date |-> Last(today_data).Date,
   OpenPrice |-> Last(today_data).OpenPrice,
   ClosePrice |-> Last(today_data).ClosePrice,
   High |-> SeqMax(today_data, "High"),
   Low |-> SeqMin(today_data, "Low")]
\* new_data = pd.DataFrame({...})
NewData(today_data) ==
  [Date |-> Last(today_data).Date,
   OpenPrice |-> today_data[1].OpenPrice,
   ClosePrice |-> Last(today_data).ClosePrice,
   High |-> SeqMax(today_data, "High"),
   Low |-> SeqMin(today_data, "Low")]

UpdatedHistoryOnlyNew(history_df, new_data) == <<new_data>>
\* updated_history = pd.concat([history_df, new_data], ignore_index=True)
UpdatedHistory(history_df, new_data) == Append(history_df, new_data)

\* The whole of update_history_data as a function of what it reads: the clock,
\* the feed file and the archive file; the result is the archive file after it
\* (to_csv rewrites the whole file; no write leaves the file as it is).
update_history_data(now, realtime_df, history_df) ==
  IF IsCutoff(now)
  THEN LET today == DateOf(now)
           today_data == TodayData(realtime_df, today)
       IN  IF today_data # <<>> /\ ~AlreadyArchived(history_df, today)
           THEN UpdatedHistory(history_df, NewData(today_data))
           ELSE history_df
  ELSE history_df

\* ------------------------------------------------------------- environment
\* the wall clock is read at arbitrary instants
SetClock ==
  /\ \E c \in Instants : clock' = c
  /\ clock' # clock
  /\ UNCHANGED <<feedFile, archive>>

\* the upstream collector appends an observation, ascending in time
FeedAppend ==
  /\ Len(feedFile) < MaxFeed
  /\ \E b \in Bars :
       /\ feedFile # <<>> => b.Date > Last(feedFile).Date
       /\ feedFile' = Append(feedFile, b)
  /\ UNCHANGED <<clock, archive>>

\* the upstream collector starts the file afresh
FeedReset ==
  /\ feedFile # <<>>
  /\ feedFile' = <<>>
  /\ UNCHANGED <<clock, archive>>

\* ------------------------------------------------------------ update_graphs
\* A tick of the Interval component: update_graphs calls update_history_data
\* with the clock and the files as they are; the archive file is the only state
\* the callback changes (what it returns is modelled by Report below).
\* op tells a tick that follows a tick, with the clock and the feed as they
\* were, from a first one.
Tick ==
  /\ archive' = update_history_data(clock, feedFile, archive)
  /\ op' = IF op \in {"tick", "retick"} THEN "retick" ELSE "tick"
  /\ UNCHANGED <<clock, feedFile, pc, frame, report, fault, files>>

\* the archive file as delivered: empty, or one row of some date
InitArchives == {<<>>} \cup {<<HistoryRow(d, p)>> : d \in Dates, p \in Prices}

\* nothing returned yet
NoReport == [kind |-> "none"]

\* the two invocations of update_history_data that may overlap
Invocations == {1, 2}
NoFrame == [now |-> 0, realtime_df |-> <<>>, history_df |-> <<>>]

\* both files are there and well-formed
AllThere == [feed |-> "ok", archive |-> "ok"]

Init ==
  /\ clock \in Instants
  /\ feedFile = <<>>
  /\ archive \in InitArchives
  /\ op = "init"
  /\ pc = [i \in Invocations |-> "idle"]
  /\ frame = [i \in Invocations |-> NoFrame]
  /\ report = NoReport
  /\ fault = "none"
  /\ files = AllThere

ClockChanges == SetClock /\ op' = "clock" /\ UNCHANGED <<pc, frame, report, fault, files>>
FeedGrows == FeedAppend /\ op' = "feed" /\ UNCHANGED <<pc, frame, report, fault, files>>
FeedRestarts == FeedReset /\ op' = "feed" /\ UNCHANGED <<pc, frame, report, fault, files>>

Next == ClockChanges \/ FeedGrows \/ FeedRestarts \/ Tick

Spec == Init /\ [][Next]_vars

\* ------------------------------------- update_history_data, statement by
\* statement, for invocations that overlap (the server runs callbacks in threads)
Goto(i, label) == pc' = [pc EXCEPT ![i] = label]

\* now = datetime.now(); if current_hour == 20
ReadClock(i) ==
  /\ pc[i] = "idle"
  /\ IF IsCutoff(clock)
     THEN /\ frame' = [frame EXCEPT ![i].now = clock]
          /\ Goto(i, "read_feed")
     ELSE UNCHANGED <<pc, frame>>
  /\ UNCHANGED <<clock, feedFile, archive, op, report, fault, files>>

\* realtime_df = pd.read_csv(REALTIME_DATA_FILE, ...)
ReadFeed(i) ==
  /\ pc[i] = "read_feed"
  /\ frame' = [frame EXCEPT ![i].realtime_df = feedFile]
  /\ Goto(i, "read_archive")
  /\ UNCHANGED <<clock, feedFile, archive, op, report, fault, files>>

\* history_df = pd.read_csv(DATA_FILE)
ReadArchive(i) ==
  /\ pc[i] = "read_archive"
  /\ frame' = [frame EXCEPT ![i].history_df = archive]
  /\ Goto(i, "check")
  /\ UNCHANGED <<clock, feedFile, archive, op, report, fault, files>>

\* if not today_data.empty: if not (history_df['Date'].dt.date == today).any():
CheckToday(i) ==
  /\ pc[i] = "check"
  /\ LET today == DateOf(frame[i].now)
         today_data == TodayData(frame[i].realtime_df, today)
     IN  IF today_data # <<>> /\ ~AlreadyArchived(frame[i].history_df, today)
         THEN Goto(i, "write") /\ UNCHANGED frame
         ELSE Goto(i, "idle") /\ frame' = [frame EXCEPT ![i] = NoFrame]
  /\ UNCHANGED <<clock, feedFile, archive, op, report, fault, files>>

WrittenFileAppended(file, history_df, new_data) == Append(file, new_data)
\* updated_history.to_csv(DATA_FILE, index=False): the file becomes what this
\* invocation read, with its record at the end
WrittenFile(file, history_df, new_data) == UpdatedHistory(history_df, new_data)

WriteArchive(i) ==
  /\ pc[i] = "write"
  /\ LET today == DateOf(frame[i].now)
         today_data == TodayData(frame[i].realtime_df, today)
     IN  archive' = WrittenFile(archive, frame[i].history_df, NewData(today_data))
  /\ Goto(i, "idle")
  /\ frame' = [frame EXCEPT ![i] = NoFrame]
  /\ UNCHANGED <<clock, feedFile, op, report, fault, files>>

ClockChangesO == SetClock /\ UNCHANGED <<op, pc, frame, report, fault, files>>
FeedGrowsO == FeedAppend /\ UNCHANGED <<op, pc, frame, report, fault, files>>

NextOverlap ==
  \/ ClockChangesO
  \/ FeedGrowsO
  \/ \E i \in Invocations : ReadClock(i)
  \/ \E i \in Invocations : ReadFeed(i)
  \/ \E i \in Invocations : ReadArchive(i)
  \/ \E i \in Invocations : CheckToday(i)
  \/ \E i \in Invocations : WriteArchive(i)

SpecOverlap == Init /\ [][NextOverlap]_vars

\* ------------------------------------------------------------------ numbers
\* A float is NaN or sgn * sqrt(num / den): means, standard deviations and
\* their quotients are kept exact in this form.
NaN == [d |-> FALSE, sgn |-> 0, num |-> 0, den |-> 1]
Sign(x) == IF x > 0 THEN 1 ELSE IF x < 0 THEN -1 ELSE 0
Real(sgn, num, den) == [d |-> TRUE, sgn |-> IF num = 0 THEN 0 ELSE sgn, num |-> num, den |-> den]
Num(x) == Real(Sign(x), x * x, 1)
\* x == 0 (False for NaN)
IsZero(x) == x.d /\ x.sgn = 0
\* a / b for b # 0 (NaN if either is NaN)
Quotient(a, b) ==
  IF a.d /\ b.d THEN Real(a.sgn * b.sgn, a.num * b.den, a.den * b.num) ELSE NaN

\* A series of returns is a sequence of integers (the unit is the daily
\* risk-free rate) and of the value None for NaN.
None == -1000000
Defined(xs) == SelectSeq(xs, LAMBDA x : x # None)

RECURSIVE SumSeq(_)
SumSeq(xs) == IF xs = <<>> THEN 0 ELSE xs[1] + SumSeq(Tail(xs))
RECURSIVE SumSquares(_)
SumSquares(xs) == IF xs = <<>> THEN 0 ELSE xs[1] * xs[1] + SumSquares(Tail(xs))

\* Series.mean(): NaN values are skipped; NaN when nothing is left
Mean(xs) ==
  LET v == Defined(xs)
  IN  IF v = <<>> THEN NaN ELSE Real(Sign(SumSeq(v)), SumSeq(v) * SumSeq(v), Len(v) * Len(v))

\* Series.std(): NaN values are skipped, ddof = 1; NaN on fewer than 2 values
Std(xs) ==
  LET v == Defined(xs)
      n == Len(v)
  IN  IF n < 2 THEN NaN
      ELSE Real(1, n * SumSquares(v) - SumSeq(v) * SumSeq(v), n * (n - 1))

\* returns - daily_rf
Minus(xs, c) == [i \in 1..Len(xs) |-> IF xs[i] = None THEN None ELSE xs[i] - c]

\* daily_rf = np.log(1 + risk_free_rate) / 252, the unit of the returns
DailyRf == 1
\* the log return of one price level, in units of the daily risk-free rate
LevelStep == 2

\* ---------------------------------------------------------- calculate_sharpe_ratio
calculate_sharpe_ratio(returns) ==
  IF Len(returns) < 2 THEN Num(0)
  ELSE LET excess_returns == Minus(returns, DailyRf)
           vol == Std(excess_returns)
       IN  IF IsZero(vol) THEN Num(0)
           ELSE Quotient(Mean(excess_returns), vol)

\* --------------------------------------------------------- calculate_sortino_ratio
calculate_sortino_ratio(returns) ==
  IF Len(returns) < 2 THEN Num(0)
  ELSE LET excess_returns == Minus(returns, DailyRf)
           negative_returns == SelectSeq(excess_returns, LAMBDA x : x # None /\ x < 0)
           downside_vol == Std(negative_returns)
       IN  IF Len(negative_returns) = 0 THEN Num(0)
           ELSE IF IsZero(downside_vol) THEN Num(0)
           ELSE Quotient(Mean(excess_returns), downside_vol)

\* -------------------------------------------------------------- calculate_drawdown
RECURSIVE CumSum(_, _)
\* Series.cumsum(): a NaN stays NaN and is skipped by the running sum
CumSum(xs, acc) ==
  IF xs = <<>> THEN <<>>
  ELSE IF xs[1] = None THEN <<None>> \o CumSum(Tail(xs), acc)
  ELSE <<acc + xs[1]>> \o CumSum(Tail(xs), acc + xs[1])

RECURSIVE CumMax(_, _)
\* Series.cummax(): a NaN stays NaN and is skipped by the running maximum
CumMax(xs, best) ==
  IF xs = <<>> THEN <<>>
  ELSE IF xs[1] = None THEN <<None>> \o CumMax(Tail(xs), best)
  ELSE LET m == IF best = None \/ xs[1] > best THEN xs[1] ELSE best
       IN  <<m>> \o CumMax(Tail(xs), m)

RECURSIVE MinOf(_)
\* Series.min() of the values that are not NaN
MinOf(v) ==
  IF Len(v) = 1 THEN v[1]
  ELSE LET m == MinOf(Tail(v)) IN IF v[1] <= m THEN v[1] ELSE m

\* returns <<drawdown, max_drawdown>>
calculate_drawdown(returns) ==
  IF Len(returns) < 2 THEN <<(<<>>), 0>>
  ELSE LET cum_returns == CumSum(returns, 0)
           cum_max == CumMax(cum_returns, None)
           drawdown == [i \in 1..Len(returns) |->
                          IF cum_returns[i] = None \/ cum_max[i] = None THEN None
                          ELSE cum_returns[i] - cum_max[i]]
           max_drawdown == IF Defined(drawdown) = <<>> THEN None
                           ELSE MinOf(Defined(drawdown))
       IN  <<drawdown, max_drawdown>>

\* ------------------------------------------------------------- create_daily_report
\* realtime_df['log_return'] = np.log(ClosePrice / ClosePrice.shift(1))
LogReturn(df) ==
  [i \in 1..Len(df) |->
     IF i = 1 THEN None ELSE LevelStep * (df[i].ClosePrice - df[i - 1].ClosePrice)]

\* min(390, minutes_elapsed)
TradingMinutes(df) ==
  LET minutes_elapsed == Last(df).Date - df[1].Date
  IN  IF minutes_elapsed < 390 THEN minutes_elapsed ELSE 390

\* a field of the risk block: the placeholder, or a formatted number
\* (the texts of the page are written here without their accents)
Placeholder == [shown |-> "-----", value |-> NaN]
Format(x) == [shown |-> IF x.d THEN "number" ELSE "nan", value |-> x]
FormatInt(x) == IF x = None THEN Format(NaN) ELSE Format(Num(x))

\* the statements of a disclosure branch, in the order they run
BranchSteps ==
  <<"volatility", "sharpe", "sortino", "metrics_message", "volatility_value",
    "sharpe_value", "sortino_value", "return_value", "max_dd_value">>
StepNo(step) == CHOOSE k \in 1..Len(BranchSteps) : BranchSteps[k] = step
\* the statements that evaluate something that can raise
RaisingSteps == {BranchSteps[k] : k \in 1..Len(BranchSteps)} \ {"metrics_message"}
FaultPoints == {"none", "to_datetime"} \cup RaisingSteps

WeekdayBranchFromFriday(now) == Weekday(now) >= 4
\* if current_weekday >= 5
WeekdayBranch(now) == Weekday(now) >= 5
\* elif current_hour >= 20
HourBranch(now) == HourOf(now) >= 20

\* The statement `step` of the branch has run when control leaves the try block:
\* the branch runs its statements in order up to the one that raises.
Ran(step, raised) == raised = "none" \/ StepNo(step) < StepNo(raised)

\* The risk block as the page shows it. `raised` is the statement of the branch
\* that raises, "none" if none does; except Exception: pass keeps what was
\* assigned before it.
RiskBlock(now, df, raised) ==
  LET log_return == LogReturn(df)
      volatility == LET sd == Std(log_return)
                    IN  IF sd.d THEN Real(sd.sgn, sd.num * TradingMinutes(df), sd.den)
                        ELSE NaN
      sharpe == calculate_sharpe_ratio(log_return)
      sortino == calculate_sortino_ratio(log_return)
      total_return == Last(CumSum(log_return, 0))
      max_drawdown == calculate_drawdown(log_return)[2]
      dflt == [metrics_message |-> "Les informations seront disponibles a 20h",
               volatility_value |-> Placeholder, sharpe_value |-> Placeholder,
               sortino_value |-> Placeholder, return_value |-> Placeholder,
               max_dd_value |-> Placeholder]
      branch(label) ==
        [metrics_message |->
           IF Ran("metrics_message", raised) THEN label ELSE dflt.metrics_message,
         volatility_value |->
           IF Ran("volatility_value", raised) THEN Format(volatility) ELSE Placeholder,
         sharpe_value |->
           IF Ran("sharpe_value", raised) THEN Format(sharpe) ELSE Placeholder,
         sortino_value |->
           IF Ran("sortino_value", raised) THEN Format(sortino) ELSE Placeholder,
         return_value |->
           IF Ran("return_value", raised) THEN FormatInt(total_return) ELSE Placeholder,
         max_dd_value |->
           IF Ran("max_dd_value", raised) THEN FormatInt(max_drawdown) ELSE Placeholder]
  IN  IF WeekdayBranch(now) THEN branch("Metriques du vendredi")
      ELSE IF HourBranch(now) THEN branch("Metriques de la journee")
      ELSE dflt

\* the rows of the session close, Date.dt.strftime('%H:%M') == '17:30'
ClosingTime(df) == SelectSeq(df, LAMBDA b : b.Date % MinutesPerDay = 17 * 60 + 30)

\* the price block; closing_price 0 stands for the text "-----"
PriceBlock(df) ==
  [opening_price |-> df[1].OpenPrice,
   closing_price |-> IF ClosingTime(df) # <<>> THEN Last(ClosingTime(df)).ClosePrice ELSE 0,
   highest_price |-> SeqMax(df, "High"),
   lowest_price |-> SeqMin(df, "Low"),
   total_variation |-> SumSeq(Defined(LogReturn(df)))]

\* What create_daily_report returns for the clock reading `now` and the feed
\* file `realtime_df` when statement `raised` raises ("none": nothing raises).
create_daily_report(now, realtime_df, raised) ==
  IF raised = "to_datetime"
  THEN [kind |-> "div", text |-> "Erreur lors du traitement des donnees"]
  ELSE IF realtime_df = <<>>
  THEN [kind |-> "div", text |-> "Aucune donnee disponible"]
  ELSE [kind |-> "report",
        price |-> PriceBlock(realtime_df),
        risk |-> RiskBlock(now, realtime_df, raised)]

\* a statement of a disclosure branch can raise only in a call that runs it
CanRaise(now, realtime_df, raised) ==
  raised \in RaisingSteps => realtime_df # <<>> /\ (WeekdayBranch(now) \/ HourBranch(now))

\* the rows of the feed files given to the report: the risk block reads the
\* Date and ClosePrice columns, so one price per row is enough
ReportBars == {b \in Bars : b.OpenPrice = b.ClosePrice /\ b.High = b.ClosePrice /\ b.Low = b.ClosePrice}

RECURSIVE FeedsOfLength(_)
\* the feed files of k rows, ascending in time
FeedsOfLength(k) ==
  IF k = 0 THEN {<<>>}
  ELSE {Append(p[1], p[2]) :
          p \in {q \in FeedsOfLength(k - 1) \X ReportBars :
                   q[1] # <<>> => q[2].Date > Last(q[1]).Date}}

ReportFeeds == UNION {FeedsOfLength(k) : k \in 0..MaxFeed}

\* a call of create_daily_report
Report ==
  /\ op = "init"
  /\ \E raised \in FaultPoints :
       /\ CanRaise(clock, feedFile, raised)
       /\ report' = create_daily_report(clock, feedFile, raised)
       /\ fault' = raised
  /\ op' = "report"
  /\ UNCHANGED <<clock, feedFile, archive, pc, frame, files>>

\* the report is a function of the clock and of the feed file: every clock
\* reading and every feed file is a start
InitReport ==
  /\ clock \in Instants
  /\ feedFile \in ReportFeeds
  /\ archive = <<>>
  /\ op = "init"
  /\ pc = [i \in Invocations |-> "idle"]
  /\ frame = [i \in Invocations |-> NoFrame]
  /\ report = NoReport
  /\ fault = "none"
  /\ files = AllThere

NextReport == Report

SpecReport == InitReport /\ [][NextReport]_vars

\* ------------------------------------------------------ archiver properties
RowsDated(rows, d) == {i \in 1..Len(rows) : DateOf(rows[i].Date) = d}

\* C1: after any sequence of ticks, with the clock and the feed changing
\* arbitrarily in between, the archive holds at most one record per calendar
\* date.
C1_OneRecordPerDate ==
  \A d \in Dates : Cardinality(RowsDated(archive, d)) <= 1

\* a tick fired at the cutoff on a date the archive already holds, next to
\* a record of another date
C1_Witness ==
  /\ op \in {"tick", "retick"}
  /\ HourOf(clock) = 20
  /\ RowsDated(feedFile, DateOf(clock)) # {}
  /\ RowsDated(archive, DateOf(clock)) # {}
  /\ Len(archive) >= 2

\* C2: a second invocation with the same clock reading and the same feed
\* snapshot leaves the archive as the first invocation left it.
C2_Idempotent == [][op' = "retick" => archive' = archive]_vars

\* the second of two invocations at the cutoff, the first of which wrote a record
C2_Witness ==
  /\ op = "retick"
  /\ HourOf(clock) = 20
  /\ RowsDated(feedFile, DateOf(clock)) # {}
  /\ Len(archive) >= 1
  /\ Last(archive).Date = Last(feedFile).Date

\* C4: the archive changes in a tick only if the hour is 20, the feed has rows
\* dated today and the archive has no record dated today.
C4_Frame ==
  [][archive' # archive =>
       /\ HourOf(clock) = 20
       /\ RowsDated(feedFile, DateOf(clock)) # {}
       /\ RowsDated(archive, DateOf(clock)) = {}]_vars

\* a tick that had to leave the archive alone: after the cutoff hour, with rows
\* dated today in the feed and no record of today in the archive
C4_Witness ==
  /\ op = "tick"
  /\ HourOf(clock) = 21
  /\ RowsDated(feedFile, DateOf(clock)) # {}
  /\ RowsDated(archive, DateOf(clock)) = {}

\* C5: no step removes or rewrites a record of the archive: every row is, after
\* the step, where it was and what it was.
C5_AppendOnly ==
  [][/\ Len(archive') >= Len(archive)
     /\ \A i \in 1..Len(archive) : archive'[i] = archive[i]]_vars

\* a record written from a one-row feed is still the same after the feed got a
\* further row of that date and another tick ran at the cutoff
C5_Witness ==
  /\ op \in {"tick", "retick"}
  /\ HourOf(clock) = 20
  /\ Len(archive) >= 2
  /\ Cardinality(RowsDated(feedFile, DateOf(clock))) = 2
  /\ \E i \in 1..Len(archive) :
       /\ archive[i].Date = feedFile[1].Date
       /\ archive[i].ClosePrice # feedFile[2].ClosePrice

\* C6: a due tick on a date not yet archived appends exactly one record: dated
\* today, open of the first row dated today, close of the last, highest high
\* and lowest low of the rows dated today; rows of other dates play no part.
C6_Finalized ==
  [][(/\ op' \in {"tick", "retick"}
      /\ HourOf(clock) = 20
      /\ RowsDated(feedFile, DateOf(clock)) # {}
      /\ RowsDated(archive, DateOf(clock)) = {})
     => LET I == RowsDated(feedFile, DateOf(clock))
            first == CHOOSE i \in I : \A j \in I : i <= j
            last == CHOOSE i \in I : \A j \in I : j <= i
            r == archive'[Len(archive')]
        IN  /\ Len(archive') = Len(archive) + 1
            /\ SubSeq(archive', 1, Len(archive)) = archive
            /\ DateOf(r.Date) = DateOf(clock)
            /\ r.OpenPrice = feedFile[first].OpenPrice
            /\ r.ClosePrice = feedFile[last].ClosePrice
            /\ \A i \in I : feedFile[i].High <= r.High /\ r.Low <= feedFile[i].Low
            /\ \E i \in I : feedFile[i].High = r.High
            /\ \E i \in I : feedFile[i].Low = r.Low]_vars

\* the record written from two rows dated today that differ in every column
C6_Witness ==
  /\ op = "tick"
  /\ HourOf(clock) = 20
  /\ Len(archive) >= 1
  /\ Cardinality(RowsDated(feedFile, DateOf(clock))) = 2
  /\ feedFile[1].OpenPrice # feedFile[2].OpenPrice
  /\ feedFile[1].ClosePrice # feedFile[2].ClosePrice
  /\ feedFile[1].High # feedFile[2].High
  /\ feedFile[1].Low # feedFile[2].Low
  /\ Last(archive).Date = feedFile[2].Date
  /\ Last(archive).OpenPrice = feedFile[1].OpenPrice

Ascending(rows) == \A i \in 1..(Len(rows) - 1) : rows[i].Date < rows[i + 1].Date

\* C7: a tick leaves an archive that was in ascending date order in ascending
\* date order, also when the archive holds records dated after today.
C7_AscendingKept == [][Ascending(archive) => Ascending(archive')]_vars

\* C3: when two invocations of update_history_data overlap, whatever the
\* interleaving of their statements, no two rows of the archive have the same
\* date.
C3_OverlapOneRecordPerDate ==
  \A i, j \in 1..Len(archive) :
    DateOf(archive[i].Date) = DateOf(archive[j].Date) => i = j

\* an invocation is about to write its record of today although the other one
\* has written a record of that date since this one read the archive
C3_Witness ==
  \E i \in Invocations :
    /\ pc[i] = "write"
    /\ RowsDated(frame[i].history_df, DateOf(frame[i].now)) = {}
    /\ RowsDated(archive, DateOf(frame[i].now)) # {}
    /\ Len(archive) >= 2

\* -------------------------------------------------------- report properties
AllPlaceholders(risk) ==
  /\ risk.metrics_message = "Les informations seront disponibles a 20h"
  /\ risk.volatility_value.shown = "-----"
  /\ risk.sharpe_value.shown = "-----"
  /\ risk.sortino_value.shown = "-----"
  /\ risk.return_value.shown = "-----"
  /\ risk.max_dd_value.shown = "-----"

\* C8: a report made on a weekday before Saturday and before 20h carries the
\* placeholder message and the placeholder in all five fields of the risk block.
C8_NoDisclosure ==
  (/\ op = "report"
   /\ report.kind = "report"
   /\ Weekday(clock) < 5
   /\ HourOf(clock) < 20)
  => AllPlaceholders(report.risk)

\* a report made on a Friday at 19h, from a feed of two rows: placeholders
C8_Witness ==
  /\ op = "report"
  /\ report.kind = "report"
  /\ Weekday(clock) = 4
  /\ HourOf(clock) = 19
  /\ Len(feedFile) = 2
  /\ fault = "none"
  /\ AllPlaceholders(report.risk)

\* C9: when a statement of a disclosure branch raises, the report is still
\* made, with its price block, and its risk block is the placeholder one:
\* the placeholder message and the placeholder in all five fields.
C9_FailureDegrades ==
  (op = "report" /\ fault \in RaisingSteps)
  => /\ report.kind = "report"
     /\ report.price = PriceBlock(feedFile)
     /\ AllPlaceholders(report.risk)

\* C10: the Sharpe and Sortino ratios the report shows are defined numbers,
\* and they are 0 when the feed gives fewer than 2 defined log returns and when
\* the close price is constant.
C10_Sentinel ==
  (/\ op = "report"
   /\ report.kind = "report"
   /\ fault = "none"
   /\ report.risk.sharpe_value.shown # "-----"
   /\ report.risk.sortino_value.shown # "-----")
  => LET sharpe == report.risk.sharpe_value.value
         sortino == report.risk.sortino_value.value
         constant == \A i \in 1..Len(feedFile) : feedFile[i].ClosePrice = feedFile[1].ClosePrice
     IN  /\ sharpe.d
         /\ sortino.d
         /\ (Len(feedFile) - 1 < 2 \/ constant) => (sharpe.sgn = 0 /\ sortino.sgn = 0)

\* ------------------------------------------- the drawdown column of the report
\* the feed files handed to calculate_drawdown: 1 to n rows
SeriesFeeds(n) == UNION {FeedsOfLength(k) : k \in 1..n}

\* drawdown, max_drawdown = calculate_drawdown(realtime_df['log_return'])
\* realtime_df['drawdown'] = drawdown
Drawdown ==
  /\ op = "init"
  /\ LET log_return == LogReturn(feedFile)
         result == calculate_drawdown(log_return)
     IN  report' = [kind |-> "drawdown", log_return |-> log_return,
                    drawdown |-> result[1], max_drawdown |-> result[2]]
  /\ op' = "drawdown"
  /\ UNCHANGED <<clock, feedFile, archive, pc, frame, fault, files>>

\* the drawdown is a function of the feed file alone: every feed file that is
\* not empty is a start, read at the cutoff of the first date
InitDrawdown ==
  /\ clock = Timestamp(1, CutoffHour * 60)
  /\ feedFile \in SeriesFeeds(MaxSeries)
  /\ archive = <<>>
  /\ op = "init"
  /\ pc = [i \in Invocations |-> "idle"]
  /\ frame = [i \in Invocations |-> NoFrame]
  /\ report = NoReport
  /\ fault = "none"
  /\ files = AllThere

NextDrawdown == Drawdown

SpecDrawdown == InitDrawdown /\ [][NextDrawdown]_vars

\* C11: for the log-return series of every feed file that is not empty, every
\* element of the drawdown calculate_drawdown returns is a defined value <= 0,
\* and max_drawdown is the minimum of the elements and is <= 0.
C11_DrawdownDefined ==
  (op = "drawdown")
  => /\ \A i \in 1..Len(report.drawdown) :
          report.drawdown[i] # None /\ report.drawdown[i] <= 0
     /\ report.max_drawdown # None
     /\ report.max_drawdown <= 0
     /\ report.drawdown # <<>> =>
          /\ \E i \in 1..Len(report.drawdown) : report.drawdown[i] = report.max_drawdown
          /\ \A i \in 1..Len(report.drawdown) : report.max_drawdown <= report.drawdown[i]

\* what the code does keep: every element but the first is a defined value <= 0,
\* the first is NaN, and max_drawdown is the minimum of the defined ones
C11_DrawdownButFirst ==
  (op = "drawdown" /\ Len(feedFile) >= 2)
  => /\ Len(report.drawdown) = Len(feedFile)
     /\ report.drawdown[1] = None
     /\ \A i \in 2..Len(report.drawdown) :
          report.drawdown[i] # None /\ report.drawdown[i] <= 0
     /\ report.max_drawdown # None
     /\ report.max_drawdown <= 0
     /\ \E i \in 2..Len(report.drawdown) : report.drawdown[i] = report.max_drawdown
     /\ \A i \in 2..Len(report.drawdown) : report.max_drawdown <= report.drawdown[i]

\* a feed whose close price rises and then falls below where it started
C11_DeclineReached ==
  /\ op = "drawdown"
  /\ Len(feedFile) >= 3
  /\ report.max_drawdown < 0
  /\ \E i \in 2..Len(report.drawdown) : report.drawdown[i] = 0

\* -------------------------------------------------------------- resample_data
\* The calendar: date 1 is Friday 2024-03-01. The frames handed to
\* resample_data have their bars on these dates: Monday 4 and Tuesday 5 March,
\* Monday 1 April, Wednesday 1 May.
SampleDays == {4, 5, 32, 62}
\* the last dates of March, April and May 2024
MonthEnds == <<31, 61, 92>>

\* 'W' is W-SUN: a bucket runs from Monday to Sunday
WeekOf(d) == (d + 3) \div 7
\* 'M': a bucket is a calendar month
MonthOf(d) ==
  CHOOSE k \in 1..Len(MonthEnds) : d <= MonthEnds[k] /\ (k = 1 \/ d > MonthEnds[k - 1])
BucketOf(period, ts) ==
  IF period = "week" THEN WeekOf(DateOf(ts)) ELSE MonthOf(DateOf(ts))
\* the label of a bucket, its right edge: the Sunday, the last date of the month
BucketLabel(period, k) ==
  IF period = "week" THEN Timestamp(7 * k + 3, 0) ELSE Timestamp(MonthEnds[k], 0)

\* a row of the frame load_and_process_data returns: a record of the archive
DailyBars ==
  {b \in [Date : {Timestamp(d, 17 * 60 + 30) : d \in SampleDays},
          OpenPrice : Prices, ClosePrice : Prices, High : Prices, Low : Prices] :
     /\ b.Low <= b.OpenPrice /\ b.OpenPrice <= b.High
     /\ b.Low <= b.ClosePrice /\ b.ClosePrice <= b.High}

RECURSIVE FramesOfLength(_)
\* the frames of k rows, ascending in time (load_and_process_data sorts)
FramesOfLength(k) ==
  IF k = 0 THEN {<<>>}
  ELSE {Append(p[1], p[2]) :
          p \in {q \in FramesOfLength(k - 1) \X DailyBars :
                   q[1] # <<>> => q[2].Date > Last(q[1]).Date}}

\* the frames of up to n rows
Frames(n) == UNION {FramesOfLength(k) : k \in 0..n}

RECURSIVE Insert(_, _)
\* the row goes after the rows that are not later than it
Insert(sorted, row) ==
  IF sorted = <<>> THEN <<row>>
  ELSE IF row.Date < sorted[1].Date THEN <<row>> \o sorted
  ELSE <<sorted[1]>> \o Insert(Tail(sorted), row)

RECURSIVE SortValues(_)
\* DataFrame.sort_values('Date')
SortValues(rows) ==
  IF rows = <<>> THEN <<>>
  ELSE Insert(SortValues(SubSeq(rows, 1, Len(rows) - 1)), Last(rows))

\* .agg({'OpenPrice': 'first', 'High': 'max', 'Low': 'min', 'ClosePrice': 'last'})
\* of the rows of one bucket; a bucket without rows gives NaN in every column
Agg(rows, label) ==
  IF rows = <<>>
  THEN [Date |-> label, OpenPrice |-> None, ClosePrice |-> None, High |-> None, Low |-> None]
  ELSE [Date |-> label,
        OpenPrice |-> rows[1].OpenPrice,
        ClosePrice |-> Last(rows).ClosePrice,
        High |-> SeqMax(rows, "High"),
        Low |-> SeqMin(rows, "Low")]

\* df.resample(rule, on='Date').agg({...}).reset_index(): one row for every
\* bucket from the bucket of the earliest row to the bucket of the latest one
Resample(df, period) ==
  IF df = <<>> THEN <<>>
  ELSE LET buckets == {BucketOf(period, df[i].Date) : i \in 1..Len(df)}
           lo == CHOOSE k \in buckets : \A j \in buckets : k <= j
           hi == CHOOSE k \in buckets : \A j \in buckets : j <= k
       IN  [n \in 1..(hi - lo + 1) |->
              Agg(SelectSeq(df, LAMBDA b : BucketOf(period, b.Date) = lo + n - 1),
                  BucketLabel(period, lo + n - 1))]

\* the values of the period selector
Periods == {"realtime", "day", "week", "month"}

\* .rolling(window=min(.., len(resampled)), min_periods=1): a window of 0 is
\* smaller than min_periods, which raises ValueError
RollingRaises(resampled) == Len(resampled) < 1

\* What resample_data does with the Date and the four price columns (the
\* columns Return, Volatility and SharpeRatio it adds are left out): the rows
\* it returns, or the exception it raises.
resample_data(df, period) ==
  IF period = "realtime" THEN [raised |-> "none", rows |-> df]
  ELSE LET resampled == IF period = "day" THEN df ELSE Resample(df, period)
       IN  IF RollingRaises(resampled)
           THEN [raised |-> "ValueError", rows |-> <<>>]
           ELSE [raised |-> "none", rows |-> SortValues(resampled)]

\* a call of resample_data on the frame read from the archive file
ResampleData ==
  /\ op = "init"
  /\ \E period \in Periods :
       LET result == resample_data(archive, period)
       IN  report' = [kind |-> "resampled", period |-> period,
                      raised |-> result.raised, rows |-> result.rows]
  /\ op' = "resample"
  /\ UNCHANGED <<clock, feedFile, archive, pc, frame, fault, files>>

\* resample_data is a function of the frame and of the period: every frame is
\* a start
InitResample ==
  /\ clock = Timestamp(1, CutoffHour * 60)
  /\ feedFile = <<>>
  /\ archive \in Frames(MaxBars)
  /\ op = "init"
  /\ pc = [i \in Invocations |-> "idle"]
  /\ frame = [i \in Invocations |-> NoFrame]
  /\ report = NoReport
  /\ fault = "none"
  /\ files = AllThere

NextResample == ResampleData

SpecResample == InitResample /\ [][NextResample]_vars

\* the rows of the frame that fall in the bucket labelled `label`
InBucket(df, period, label) ==
  {j \in 1..Len(df) : BucketOf(period, df[j].Date) = BucketOf(period, label)}

\* C12: for 'week' and 'month' every bar resample_data returns is the bar of a
\* bucket that holds at least one input bar: open of the first input bar of the
\* bucket, close of the last, highest high and lowest low; the bars are in the
\* order of their buckets.
C12_BucketAggregation ==
  (/\ op = "resample"
   /\ report.period \in {"week", "month"}
   /\ report.raised = "none")
  => /\ \A n \in 1..Len(report.rows) :
          LET r == report.rows[n]
              I == InBucket(archive, report.period, r.Date)
          IN  /\ I # {}
              /\ LET first == CHOOSE i \in I : \A j \in I : i <= j
                     last == CHOOSE i \in I : \A j \in I : j <= i
                 IN  /\ r.OpenPrice = archive[first].OpenPrice
                     /\ r.ClosePrice = archive[last].ClosePrice
                     /\ \A i \in I : archive[i].High <= r.High /\ r.Low <= archive[i].Low
                     /\ \E i \in I : archive[i].High = r.High
                     /\ \E i \in I : archive[i].Low = r.Low
     /\ \A n \in 1..(Len(report.rows) - 1) : report.rows[n].Date < report.rows[n + 1].Date

\* what the code does keep: the bar of a bucket that holds input bars
\* aggregates them, the bar of a bucket that holds none is NaN in every
\* column, and the bars are in the order of their buckets
C12_NonEmptyBuckets ==
  (/\ op = "resample"
   /\ report.period \in {"week", "month"}
   /\ report.raised = "none")
  => /\ \A n \in 1..Len(report.rows) :
          LET r == report.rows[n]
              I == InBucket(archive, report.period, r.Date)
          IN  IF I = {}
              THEN r.OpenPrice = None /\ r.ClosePrice = None /\ r.High = None /\ r.Low = None
              ELSE LET first == CHOOSE i \in I : \A j \in I : i <= j
                       last == CHOOSE i \in I : \A j \in I : j <= i
                   IN  /\ r.OpenPrice = archive[first].OpenPrice
                       /\ r.ClosePrice = archive[last].ClosePrice
                       /\ \A i \in I : archive[i].High <= r.High /\ r.Low <= archive[i].Low
                       /\ \E i \in I : archive[i].High = r.High
                       /\ \E i \in I : archive[i].Low = r.Low
     /\ \A n \in 1..(Len(report.rows) - 1) : report.rows[n].Date < report.rows[n + 1].Date

\* two bars of one week that differ in every column, and a bar of a later week
C12_AggregateReached ==
  /\ op = "resample"
  /\ report.period = "week"
  /\ Len(archive) = 3
  /\ WeekOf(DateOf(archive[1].Date)) = WeekOf(DateOf(archive[2].Date))
  /\ archive[1].OpenPrice # archive[2].OpenPrice
  /\ archive[1].ClosePrice # archive[2].ClosePrice
  /\ archive[1].High # archive[2].High
  /\ archive[1].Low # archive[2].Low
  /\ report.rows[1].OpenPrice = archive[1].OpenPrice
  /\ report.rows[1].ClosePrice = archive[2].ClosePrice

\* --------------------------------------------------------- load_realtime_data
\* a cell of the raw file that is neither a number nor a date, such as "abc"
Unparsable == -1

Columns == {"Date", "OpenPrice", "ClosePrice", "High", "Low"}

\* the row with the cells of the columns `cols` unparsable
Spoil(b, cols) == [c \in Columns |-> IF c \in cols THEN Unparsable ELSE b[c]]

\* a row of the raw file as read_csv returns it: any of its cells can be
\* unparsable
RawRows == {Spoil(b, cols) : b \in ReportBars, cols \in SUBSET Columns}

RECURSIVE RawFilesOfLength(_)
\* the raw files of k rows, in any order
RawFilesOfLength(k) ==
  IF k = 0 THEN {<<>>}
  ELSE {Append(p[1], p[2]) : p \in RawFilesOfLength(k - 1) \X RawRows}

\* the raw files of up to n rows
RawFiles(n) == UNION {RawFilesOfLength(k) : k \in 0..n}

\* pd.to_numeric(cell, errors='coerce'): NaN for a cell that is not a number
ToNumeric(cell) == IF cell = Unparsable THEN None ELSE cell

\* for col in numeric_columns: df[col] = pd.to_numeric(df[col], errors='coerce')
Coerced(df) ==
  [i \in 1..Len(df) |->
     [Date |-> df[i].Date,
      OpenPrice |-> ToNumeric(df[i].OpenPrice),
      ClosePrice |-> ToNumeric(df[i].ClosePrice),
      High |-> ToNumeric(df[i].High),
      Low |-> ToNumeric(df[i].Low)]]

\* pd.to_datetime(df['Date']) raises when a cell is not a date
ToDatetimeRaises(df) == \E i \in 1..Len(df) : df[i].Date = Unparsable

\* What load_realtime_data returns, with the Date and the four price columns
\* (the columns Return, Volatility and SharpeRatio it adds are left out):
\* `state` is the condition of the file, `raw` its rows as read_csv returns
\* them. except Exception: return pd.DataFrame() turns every exception into
\* the empty frame.
load_realtime_data(state, raw) ==
  IF state = "missing" THEN <<>>
  ELSE IF state = "corrupt" THEN <<>>
  ELSE IF ToDatetimeRaises(raw) THEN <<>>
  ELSE IF RollingRaises(raw) THEN <<>>
  ELSE SortValues(Coerced(raw))

\* a call of load_realtime_data
Load ==
  /\ op = "init"
  /\ report' = [kind |-> "loaded", rows |-> load_realtime_data(files.feed, feedFile)]
  /\ op' = "load"
  /\ UNCHANGED <<clock, feedFile, archive, pc, frame, fault, files>>

\* load_realtime_data is a function of the raw file: every raw file is a start
InitLoad ==
  /\ clock = Timestamp(1, CutoffHour * 60)
  /\ feedFile \in RawFiles(MaxRaw)
  /\ archive = <<>>
  /\ op = "init"
  /\ pc = [i \in Invocations |-> "idle"]
  /\ frame = [i \in Invocations |-> NoFrame]
  /\ report = NoReport
  /\ fault = "none"
  /\ files = AllThere

NextLoad == Load

SpecLoad == InitLoad /\ [][NextLoad]_vars

\* a raw row that parses: a date and four numbers
Valid(row) == \A c \in Columns : row[c] # Unparsable

\* how many times `row` is in `rows`
Count(rows, row) == Cardinality({i \in 1..Len(rows) : rows[i] = row})

\* C13: the series load_realtime_data returns holds exactly the rows of the
\* raw file whose date parses and whose four price fields are numbers, in
\* ascending order of timestamp: a bad row is never in it and never makes a
\* valid row go missing.
C13_DropsBadRows ==
  (op = "load")
  => /\ \A n \in 1..Len(report.rows) :
          /\ Valid(report.rows[n])
          /\ report.rows[n].OpenPrice # None /\ report.rows[n].ClosePrice # None
          /\ report.rows[n].High # None /\ report.rows[n].Low # None
     /\ \A i \in 1..Len(feedFile) :
          Valid(feedFile[i]) => Count(report.rows, feedFile[i]) = Count(feedFile, feedFile[i])
     /\ Len(report.rows) = Cardinality({i \in 1..Len(feedFile) : Valid(feedFile[i])})
     /\ \A n \in 1..(Len(report.rows) - 1) : report.rows[n].Date <= report.rows[n + 1].Date

\* what the code does keep: a raw file whose dates all parse is returned row
\* for row, sorted by timestamp, a price that is not a number being NaN; a raw
\* file with a date that does not parse gives the empty frame
C13_AllOrNothing ==
  (op = "load")
  => IF \E i \in 1..Len(feedFile) : feedFile[i].Date = Unparsable
     THEN report.rows = <<>>
     ELSE /\ Len(report.rows) = Len(feedFile)
          /\ \A i \in 1..Len(feedFile) :
               Count(report.rows, Coerced(feedFile)[i]) = Count(Coerced(feedFile), Coerced(feedFile)[i])
          /\ \A n \in 1..(Len(report.rows) - 1) : report.rows[n].Date <= report.rows[n + 1].Date

\* two valid rows out of order come back sorted
C13_SortedReached ==
  /\ op = "load"
  /\ Len(feedFile) = 2
  /\ Valid(feedFile[1]) /\ Valid(feedFile[2])
  /\ feedFile[1].Date > feedFile[2].Date
  /\ report.rows = <<feedFile[2], feedFile[1]>>

\* ---------------------------------------------- update_graphs, the whole of it
\* The conditions of REALTIME_DATA_FILE: there and well-formed; not there;
\* corrupt (read_csv, the renaming of the columns or to_datetime raises).
FeedConditions == {"ok", "missing", "corrupt"}
\* The conditions of DATA_FILE: there and well-formed; not there; corrupt
\* (read_csv or to_datetime raises); a csv file with its Date column that lacks
\* the ClosePrice column.
ArchiveConditions == {"ok", "missing", "corrupt", "lacks_column"}

\* update_history_data with the files in the condition `fs`: an exception of
\* read_csv or to_datetime leaves the try block before to_csv; a history file
\* that lacks a price column is read, checked on its Date column and written
update_history_data_on(fs, now, realtime_df, history_df) ==
  IF fs.feed = "ok" /\ fs.archive \in {"ok", "lacks_column"}
  THEN update_history_data(now, realtime_df, history_df)
  ELSE history_df

\* What load_and_process_data returns: the rows sorted by Date, the empty
\* frame when read_csv or to_datetime raises
load_and_process_data(state, rows) ==
  IF state \in {"missing", "corrupt"} THEN <<>> ELSE SortValues(rows)

\* mask = (df['Date'] >= start_date) & (df['Date'] <= end_date); df.loc[mask]
\* start_date and end_date are dates: midnight
Masked(df, start_date, end_date) ==
  SelectSeq(df, LAMBDA b : /\ b.Date >= Timestamp(start_date, 0)
                            /\ b.Date <= Timestamp(end_date, 0))

\* the date ranges of the DatePickerRange
DateRanges == {r \in Dates \X Dates : r[1] <= r[2]}

\* create_daily_report with the feed file in the condition `state`
daily_report(state, now, realtime_df) ==
  IF state = "missing"
  THEN [kind |-> "div", text |-> "Donnees en temps reel non disponibles"]
  ELSE IF state = "corrupt"
  THEN create_daily_report(now, realtime_df, "to_datetime")
  ELSE create_daily_report(now, realtime_df, "none")

\* return empty_fig, empty_fig, html.Div(text)
NoData(text) == [kind |-> "no_data", text |-> text]

\* What update_graphs returns, or the exception that escapes it. `history` is
\* the archive file as update_history_data left it.
Returned(fs, now, realtime_df, history, period, start_date, end_date) ==
  LET loaded == IF period = "realtime"
                THEN load_realtime_data(fs.feed, realtime_df)
                ELSE load_and_process_data(fs.archive, history)
      df == IF period = "realtime" THEN loaded
            ELSE Masked(loaded, start_date, end_date)
      resampled == resample_data(df, period)
  IN  IF loaded = <<>>
      THEN NoData(IF period = "realtime"
                  THEN "Aucune donnee en temps reel disponible"
                  ELSE "Aucune donnee disponible")
      ELSE IF period # "realtime" /\ fs.archive = "lacks_column"
      THEN [kind |-> "exception", error |-> "KeyError"]
      ELSE IF resampled.raised # "none"
      THEN [kind |-> "exception", error |-> resampled.raised]
      ELSE IF resampled.rows = <<>>
      THEN NoData("Aucune donnee pour la periode selectionnee")
      ELSE [kind |-> "figures", rows |-> resampled.rows,
            daily_report |-> daily_report(fs.feed, now, realtime_df)]

\* a run of the callback update_graphs(n, start_date, end_date, period)
UpdateGraphs ==
  /\ op = "init"
  /\ \E period \in Periods, range \in DateRanges :
       /\ archive' = update_history_data_on(files, clock, feedFile, archive)
       /\ report' = [period |-> period, start_date |-> range[1], end_date |-> range[2],
                     result |-> Returned(files, clock, feedFile, archive', period,
                                         range[1], range[2])]
  /\ op' = "update"
  /\ UNCHANGED <<clock, feedFile, pc, frame, fault, files>>

\* the callback is a function of the clock, of the two files and of its
\* arguments: every clock reading, content and condition of the files is a start
InitCallback ==
  /\ clock \in Instants
  /\ feedFile \in ReportFeeds
  /\ archive \in InitArchives
  /\ op = "init"
  /\ pc = [i \in Invocations |-> "idle"]
  /\ frame = [i \in Invocations |-> NoFrame]
  /\ report = NoReport
  /\ fault = "none"
  /\ files \in [feed : FeedConditions, archive : ArchiveConditions]

NextCallback == UpdateGraphs

SpecCallback == InitCallback /\ [][NextCallback]_vars

\* C14: every run of update_graphs, whatever the period, the date range and
\* the condition of the two files, returns figures with a report or a 'no
\* data' result, no exception escapes it, and with a file missing or corrupt
\* update_history_data leaves the archive as it is.
C14_NeverCrashes ==
  [][op' = "update" =>
       /\ report'.result.kind \in {"figures", "no_data"}
       /\ (files.feed # "ok" \/ files.archive # "ok") => archive' = archive]_vars

\* what the code does keep: with period 'realtime' the callback always returns
\* a result; with the feed file missing or corrupt, or the archive file
\* missing or unreadable, the archive is left as it is
C14_RealtimeReturns ==
  [][op' = "update" =>
       /\ report'.period = "realtime" => report'.result.kind \in {"figures", "no_data"}
       /\ (files.feed # "ok" \/ files.archive \in {"missing", "corrupt"}) => archive' = archive]_vars

\* a run with both files well-formed, period 'day', whose date range holds no
\* record of the archive
C14_EmptyRangeReached ==
  /\ op = "update"
  /\ files = AllThere
  /\ report.period = "day"
  /\ archive # <<>>
  /\ Masked(archive, report.start_date, report.end_date) = <<>>
  /\ report.result.kind = "exception"

\* a run at the cutoff with the feed file missing: a result, the archive as it was
C14_MissingFeedReached ==
  /\ op = "update"
  /\ files.feed = "missing"
  /\ files.archive = "ok"
  /\ HourOf(clock) = 20
  /\ feedFile # <<>>
  /\ archive = <<>>
  /\ report.period = "realtime"
  /\ report.result.kind = "no_data"

\* ------------------------------------------------- overlap: record stability
\* C15: when two invocations of update_history_data overlap and the feed gains
\* bars between their reads, a record that is in the archive stays in it, with
\* the same open, close, high and low: the whole-file write of the other
\* invocation neither replaces it by a record made from another reading of the
\* feed nor discards it.
C15_RecordStable ==
  [][\A i \in 1..Len(archive) : \E j \in 1..Len(archive') : archive'[j] = archive[i]]_vars

====
